---- MODULE Spec2Model ----
(***************************************************************************)
(* TCP AZS congestion control (src/src/tcp_azs.c): the per-connection      *)
(* private record struct azs, the connection's send window tp->snd_cwnd,   *)
(* and the seven hooks registered in tcp_congestion_ops tcp_azs.           *)
(*                                                                         *)
(* The variables hold the connection the stack is serving; peer holds a    *)
(* second connection.  Spec follows one connection, SpecConns lets the     *)
(* stack serve the two in any interleaving, SpecFlag adds the runs that    *)
(* differ from the program's in if_cong alone.  The stack hands the hooks  *)
(* a private area                                                          *)
(* that it allocated zero-filled with the socket; tcp_azs_init is the      *)
(* hook that gives the fields their working values, and the stack is free  *)
(* to call any registered hook in any order (the table of hooks carries    *)
(* no ordering), so the other hooks may also run on the zero-filled area.  *)
(*                                                                         *)
(* tcp_azs_cong_avoid tests azs->ezs_en.  struct azs declares no such      *)
(* field and no statement of the file assigns it, so the value tested is   *)
(* indeterminate: ezs_en is a storage cell of its own that starts with     *)
(* either truth value and that no hook writes.                             *)
(*                                                                         *)
(* tcp_veno_cong_avoid is not part of the file.  It is kept opaque: a call *)
(* is recorded with its arguments, and it may leave the send window alone  *)
(* or give it any value the stack's own arithmetic produces.               *)
(***************************************************************************)
EXTENDS Integers, Sequences, FiniteSets

VARIABLES
    azs_en,     \* struct azs .azs_en  (u8)
    if_cong,    \* struct azs .if_cong (u8)
    rtt_min,    \* struct azs .rtt_min (u32)
    rtt,        \* struct azs .rtt     (u32)
    ezs_en,     \* the cell read as azs->ezs_en in tcp_azs_cong_avoid
    snd_cwnd,   \* tcp_sock .snd_cwnd
    inited,     \* history: tcp_azs_init has run on this connection
    samples,    \* history: the positive rtt_us values delivered since init
    last_op,    \* history: the hook that ran last
    arg,        \* history: the two arguments of that call (0 where absent)
    ret,        \* history: <<v>> when the hook returned v, <<>> for void
    wrote,      \* history: the hook itself assigned tp->snd_cwnd
    veno,       \* history: the calls of tcp_veno_cong_avoid the hook made
    peer        \* a second connection: its private area and send window

vars == <<azs_en, if_cong, rtt_min, rtt, ezs_en, snd_cwnd,
          inited, samples, last_op, arg, ret, wrote, veno, peer>>

----------------------------------------------------------------------------
(* Program constants *)

TCP_AZS_INIT_RTT == 1000000

DEFAULT_AZS_WINDOW_SIZE == 65000

(* Bounds on the inputs the stack delivers *)

MaxRttSteps == 2

MaxCnt == 1

MaxAck == 1

MaxAcked == 1

MaxEvent == 1

MaxCaState == 1

MaxStackCwnd == 2

\* s32 rtt_us: no sample (-1), zero, and samples below and above 1 s
RttValues ==
    {-1, 0} \cup {k * 3 * (TCP_AZS_INIT_RTT \div 4) : k \in 1..MaxRttSteps}

CntValues == 0..MaxCnt

AckValues == 0..MaxAck

AckedValues == 0..MaxAcked

EventValues == 0..MaxEvent

CaStateValues == 0..MaxCaState

\* windows the stack or the fallback strategy may have set
StackCwndValues == 1..MaxStackCwnd

----------------------------------------------------------------------------
(* Helpers *)

\* min() taken the wrong way round
min_larger(a, b) == IF a < b THEN b ELSE a

\* min() that always yields its second operand (rtt_min = rtt)
min_second(a, b) == b

\* the kernel's min() on two u32
min(a, b) == IF a < b THEN a ELSE b

SetMin(S) == CHOOSE m \in S : \A x \in S : m <= x

\* lines 57-58 with >= in place of >
pkts_acked_rtt_ge(cur, rtt_us) == IF rtt_us >= 0 THEN rtt_us ELSE cur

\* lines 57-58 with a 7/8 moving average in place of the latest sample
pkts_acked_rtt_ewma(cur, rtt_us) ==
    IF rtt_us > 0 THEN (7 * cur + rtt_us) \div 8 ELSE cur

\* lines 57-58: the value of azs->rtt after "if (rtt_us > 0) azs->rtt = rtt_us"
pkts_acked_rtt(cur, rtt_us) == IF rtt_us > 0 THEN rtt_us ELSE cur

\* the effect of the opaque fallback on the send window
tcp_veno_cong_avoid(ack, acked) ==
    /\ veno' = <<(<<ack, acked>>)>>
    /\ \E w \in StackCwndValues \cup {snd_cwnd} : snd_cwnd' = w

----------------------------------------------------------------------------
Init ==
    /\ azs_en = 0
    /\ if_cong = 0
    /\ rtt_min = 0
    /\ rtt = 0
    /\ ezs_en \in {0, 1}
    /\ snd_cwnd \in StackCwndValues
    /\ inited = FALSE
    /\ samples = {}
    /\ last_op = "none"
    /\ arg = <<0, 0>>
    /\ ret = <<>>
    /\ wrote = FALSE
    /\ veno = <<>>
    /\ peer \in [azs_en : {0}, if_cong : {0}, rtt_min : {0}, rtt : {0},
                 ezs_en : {0, 1}, snd_cwnd : StackCwndValues,
                 inited : {FALSE}, samples : {{}}]

\* tcp_azs_init without the reset of rtt_min
tcp_azs_init_keep_min ==
    /\ azs_en' = 1
    /\ if_cong' = 0
    /\ rtt' = TCP_AZS_INIT_RTT
    /\ inited' = TRUE
    /\ samples' = {}
    /\ last_op' = "init"
    /\ arg' = <<0, 0>>
    /\ ret' = <<>>
    /\ wrote' = FALSE
    /\ veno' = <<>>
    /\ UNCHANGED <<peer, rtt_min, ezs_en, snd_cwnd>>

\* tcp_azs_init that also starts the window at the fixed size
tcp_azs_init_force_window ==
    /\ azs_en' = 1
    /\ if_cong' = 0
    /\ rtt_min' = TCP_AZS_INIT_RTT
    /\ rtt' = TCP_AZS_INIT_RTT
    /\ snd_cwnd' = DEFAULT_AZS_WINDOW_SIZE
    /\ inited' = TRUE
    /\ samples' = {}
    /\ last_op' = "init"
    /\ arg' = <<0, 0>>
    /\ ret' = <<>>
    /\ wrote' = TRUE
    /\ veno' = <<>>
    /\ UNCHANGED <<peer, ezs_en>>

tcp_azs_init ==
    /\ azs_en' = 1
    /\ if_cong' = 0
    /\ rtt_min' = TCP_AZS_INIT_RTT
    /\ rtt' = TCP_AZS_INIT_RTT
    /\ inited' = TRUE
    /\ samples' = {}
    /\ last_op' = "init"
    /\ arg' = <<0, 0>>
    /\ ret' = <<>>
    /\ wrote' = FALSE
    /\ veno' = <<>>
    /\ UNCHANGED <<peer, ezs_en, snd_cwnd>>

\* tcp_azs_pkts_acked that rejects a call without a usable sample
tcp_azs_pkts_acked_strict(cnt, rtt_us) ==
    /\ rtt_us > 0
    /\ cnt > 0
    /\ rtt' = rtt_us
    /\ rtt_min' = min(rtt_min, rtt_us)
    /\ snd_cwnd' = DEFAULT_AZS_WINDOW_SIZE
    /\ samples' = samples \cup {rtt_us}
    /\ last_op' = "pkts_acked"
    /\ arg' = <<cnt, rtt_us>>
    /\ ret' = <<>>
    /\ wrote' = TRUE
    /\ veno' = <<>>
    /\ UNCHANGED <<peer, azs_en, if_cong, ezs_en, inited>>

\* tcp_azs_pkts_acked that keeps the RTT estimates in storage shared by all
\* connections (file-scope statics) instead of the private area of sk
tcp_azs_pkts_acked_shared(cnt, rtt_us) ==
    /\ rtt' = pkts_acked_rtt(rtt, rtt_us)
    /\ rtt_min' = min(rtt_min, rtt')
    /\ peer' = [peer EXCEPT !.rtt = rtt', !.rtt_min = rtt_min']
    /\ snd_cwnd' = DEFAULT_AZS_WINDOW_SIZE
    /\ samples' = IF rtt_us > 0 THEN samples \cup {rtt_us} ELSE samples
    /\ last_op' = "pkts_acked"
    /\ arg' = <<cnt, rtt_us>>
    /\ ret' = <<>>
    /\ wrote' = TRUE
    /\ veno' = <<>>
    /\ UNCHANGED <<azs_en, if_cong, ezs_en, inited>>

tcp_azs_pkts_acked(cnt, rtt_us) ==
    /\ rtt' = pkts_acked_rtt(rtt, rtt_us)
    /\ rtt_min' = min(rtt_min, rtt')
    /\ snd_cwnd' = DEFAULT_AZS_WINDOW_SIZE
    /\ samples' = IF rtt_us > 0 THEN samples \cup {rtt_us} ELSE samples
    /\ last_op' = "pkts_acked"
    /\ arg' = <<cnt, rtt_us>>
    /\ ret' = <<>>
    /\ wrote' = TRUE
    /\ veno' = <<>>
    /\ UNCHANGED <<peer, azs_en, if_cong, ezs_en, inited>>

\* tcp_azs_undo_cwnd that hands back the current window
tcp_azs_undo_cwnd_current ==
    /\ last_op' = "undo_cwnd"
    /\ arg' = <<0, 0>>
    /\ ret' = <<snd_cwnd>>
    /\ wrote' = FALSE
    /\ veno' = <<>>
    /\ UNCHANGED <<peer, azs_en, if_cong, rtt_min, rtt, ezs_en, snd_cwnd,
                   inited, samples>>

tcp_azs_undo_cwnd ==
    /\ last_op' = "undo_cwnd"
    /\ arg' = <<0, 0>>
    /\ ret' = <<DEFAULT_AZS_WINDOW_SIZE>>
    /\ wrote' = FALSE
    /\ veno' = <<>>
    /\ UNCHANGED <<peer, azs_en, if_cong, rtt_min, rtt, ezs_en, snd_cwnd,
                   inited, samples>>

\* tcp_azs_state as a hook that raises if_cong instead of azs_en
tcp_azs_state_if_cong(ca_state) ==
    /\ if_cong' = 1
    /\ last_op' = "set_state"
    /\ arg' = <<ca_state, 0>>
    /\ ret' = <<>>
    /\ wrote' = FALSE
    /\ veno' = <<>>
    /\ UNCHANGED <<peer, azs_en, rtt_min, rtt, ezs_en, snd_cwnd, inited, samples>>

tcp_azs_state(ca_state) ==
    /\ azs_en' = 1
    /\ last_op' = "set_state"
    /\ arg' = <<ca_state, 0>>
    /\ ret' = <<>>
    /\ wrote' = FALSE
    /\ veno' = <<>>
    /\ UNCHANGED <<peer, if_cong, rtt_min, rtt, ezs_en, snd_cwnd, inited, samples>>

\* tcp_azs_cwnd_event that forces the window only while azs is enabled
tcp_azs_cwnd_event_gated(event) ==
    /\ snd_cwnd' = IF azs_en # 0 THEN DEFAULT_AZS_WINDOW_SIZE ELSE snd_cwnd
    /\ last_op' = "cwnd_event"
    /\ arg' = <<event, 0>>
    /\ ret' = <<>>
    /\ wrote' = (azs_en # 0)
    /\ veno' = <<>>
    /\ UNCHANGED <<peer, azs_en, if_cong, rtt_min, rtt, ezs_en, inited, samples>>

\* tcp_azs_cwnd_event that also records the event in if_cong
tcp_azs_cwnd_event_flag(event) ==
    /\ snd_cwnd' = DEFAULT_AZS_WINDOW_SIZE
    /\ if_cong' = 1
    /\ last_op' = "cwnd_event"
    /\ arg' = <<event, 0>>
    /\ ret' = <<>>
    /\ wrote' = TRUE
    /\ veno' = <<>>
    /\ UNCHANGED <<peer, azs_en, rtt_min, rtt, ezs_en, inited, samples>>

tcp_azs_cwnd_event(event) ==
    /\ snd_cwnd' = DEFAULT_AZS_WINDOW_SIZE
    /\ last_op' = "cwnd_event"
    /\ arg' = <<event, 0>>
    /\ ret' = <<>>
    /\ wrote' = TRUE
    /\ veno' = <<>>
    /\ UNCHANGED <<peer, azs_en, if_cong, rtt_min, rtt, ezs_en, inited, samples>>

\* tcp_azs_cong_avoid that also falls back to veno once if_cong is raised
tcp_azs_cong_avoid_if_cong(ack, acked) ==
    /\ IF ezs_en = 0 \/ if_cong # 0
         THEN /\ tcp_veno_cong_avoid(ack, acked)
              /\ wrote' = FALSE
         ELSE /\ snd_cwnd' = DEFAULT_AZS_WINDOW_SIZE
              /\ wrote' = TRUE
              /\ veno' = <<>>
    /\ last_op' = "cong_avoid"
    /\ arg' = <<ack, acked>>
    /\ ret' = <<>>
    /\ UNCHANGED <<peer, azs_en, if_cong, rtt_min, rtt, ezs_en, inited, samples>>

tcp_azs_cong_avoid(ack, acked) ==
    /\ IF ezs_en = 0
         THEN /\ tcp_veno_cong_avoid(ack, acked)
              /\ wrote' = FALSE
         ELSE /\ snd_cwnd' = DEFAULT_AZS_WINDOW_SIZE
              /\ wrote' = TRUE
              /\ veno' = <<>>
    /\ last_op' = "cong_avoid"
    /\ arg' = <<ack, acked>>
    /\ ret' = <<>>
    /\ UNCHANGED <<peer, azs_en, if_cong, rtt_min, rtt, ezs_en, inited, samples>>

tcp_azs_ssthresh ==
    /\ last_op' = "ssthresh"
    /\ arg' = <<0, 0>>
    /\ ret' = <<DEFAULT_AZS_WINDOW_SIZE>>
    /\ wrote' = FALSE
    /\ veno' = <<>>
    /\ UNCHANGED <<peer, azs_en, if_cong, rtt_min, rtt, ezs_en, snd_cwnd,
                   inited, samples>>

Next ==
    \/ tcp_azs_init
    \/ \E cnt \in CntValues, rtt_us \in RttValues : tcp_azs_pkts_acked(cnt, rtt_us)
    \/ tcp_azs_undo_cwnd
    \/ \E ca_state \in CaStateValues : tcp_azs_state(ca_state)
    \/ \E event \in EventValues : tcp_azs_cwnd_event(event)
    \/ \E ack \in AckValues, acked \in AckedValues : tcp_azs_cong_avoid(ack, acked)
    \/ tcp_azs_ssthresh

Spec == Init /\ [][Next]_vars

\* The stack turns to its other connection: from here on the hooks are
\* called with that connection's sk, so the two connections' records and
\* windows change places.
sk_switch ==
    /\ peer' = [azs_en |-> azs_en, if_cong |-> if_cong, rtt_min |-> rtt_min,
                rtt |-> rtt, ezs_en |-> ezs_en, snd_cwnd |-> snd_cwnd,
                inited |-> inited, samples |-> samples]
    /\ azs_en' = peer.azs_en
    /\ if_cong' = peer.if_cong
    /\ rtt_min' = peer.rtt_min
    /\ rtt' = peer.rtt
    /\ ezs_en' = peer.ezs_en
    /\ snd_cwnd' = peer.snd_cwnd
    /\ inited' = peer.inited
    /\ samples' = peer.samples
    /\ last_op' = "switch"
    /\ arg' = <<0, 0>>
    /\ ret' = <<>>
    /\ wrote' = FALSE
    /\ veno' = <<>>

NextConns == Next \/ sk_switch

\* The same connection as a second run would have it: everything as it is,
\* if_cong with its other value.
flag_flip ==
    /\ if_cong' = 1 - if_cong
    /\ UNCHANGED <<azs_en, rtt_min, rtt, ezs_en, snd_cwnd, inited, samples,
                   last_op, arg, ret, wrote, veno, peer>>

NextFlag == Next \/ flag_flip

\* One connection is followed here; the other is never served, so one of
\* its fresh states stands for all.
InitFlag == Init /\ peer.ezs_en = 0 /\ peer.snd_cwnd = 1

\* Runs whose states may differ from the program's in if_cong alone
SpecFlag == InitFlag /\ [][NextFlag]_vars

\* Two connections served in any interleaving
SpecConns == Init /\ [][NextConns]_vars

TypeOK ==
    /\ azs_en \in {0, 1}
    /\ if_cong \in {0, 1}
    /\ ezs_en \in {0, 1}
    /\ rtt \in Nat
    /\ rtt_min \in Nat
    /\ snd_cwnd \in Nat
    /\ inited \in BOOLEAN
    /\ wrote \in BOOLEAN
    /\ Len(ret) <= 1
    /\ Len(veno) <= 1

----------------------------------------------------------------------------
(* Properties *)

AckHooks == {"pkts_acked", "cong_avoid", "cwnd_event"}

\* C1: while azs_en is set, a call of tcp_azs_pkts_acked, tcp_azs_cong_avoid
\* or tcp_azs_cwnd_event leaves snd_cwnd equal to DEFAULT_AZS_WINDOW_SIZE,
\* whatever the window was and whatever the arguments are.
C1_OverrideForcesWindow ==
    [][(azs_en = 1 /\ last_op' \in AckHooks)
         => snd_cwnd' = DEFAULT_AZS_WINDOW_SIZE]_vars

C3_RttTracksSamples ==
    (inited /\ last_op = "pkts_acked" /\ arg[2] > 0)
        => /\ rtt = arg[2]
           /\ rtt_min = SetMin(samples \cup {TCP_AZS_INIT_RTT})

\* C3 witness: a second positive sample larger than an earlier one has just
\* been delivered, so the latest sample and the minimum differ.
C3_Witness ==
    /\ inited
    /\ last_op = "pkts_acked"
    /\ arg[2] > 0
    /\ Cardinality(samples) >= 2
    /\ rtt > rtt_min
    /\ rtt_min < TCP_AZS_INIT_RTT

\* C4: a tcp_azs_pkts_acked call with rtt_us <= 0 leaves rtt and rtt_min as
\* they were before the call.
C4_NoSampleKeepsRtt ==
    [][(last_op' = "pkts_acked" /\ arg'[2] <= 0)
         => (rtt' = rtt /\ rtt_min' = rtt_min)]_vars

\* C4 witness: a call without a sample has run after earlier positive
\* samples moved rtt away from rtt_min.
C4_Witness ==
    /\ inited
    /\ last_op = "pkts_acked"
    /\ arg[2] <= 0
    /\ samples # {}
    /\ rtt # rtt_min

\* C5: right after tcp_azs_init, azs_en is set, if_cong is clear and both
\* rtt and rtt_min are TCP_AZS_INIT_RTT, whatever the state before.
C5_InitBaseline ==
    last_op = "init"
        => /\ azs_en = 1
           /\ if_cong = 0
           /\ rtt = TCP_AZS_INIT_RTT
           /\ rtt_min = TCP_AZS_INIT_RTT

\* C5 witness: tcp_azs_init has run on a connection whose window an earlier
\* hook had already forced, that is, from a state other than the fresh one.
C5_Witness ==
    /\ last_op = "init"
    /\ snd_cwnd = DEFAULT_AZS_WINDOW_SIZE
    /\ rtt = TCP_AZS_INIT_RTT

\* C6: tcp_azs_undo_cwnd and tcp_azs_ssthresh return
\* DEFAULT_AZS_WINDOW_SIZE and change neither the private record nor the
\* send window.
C6_FixedReturn ==
    [][last_op' \in {"undo_cwnd", "ssthresh"}
         => /\ ret' = <<DEFAULT_AZS_WINDOW_SIZE>>
            /\ wrote' = FALSE
            /\ UNCHANGED <<azs_en, if_cong, rtt_min, rtt, snd_cwnd>>]_vars

\* C6 witness: one of the two has returned the fixed size while the window
\* held another value and rtt differed from rtt_min.
C6_Witness ==
    /\ last_op \in {"undo_cwnd", "ssthresh"}
    /\ ret = <<DEFAULT_AZS_WINDOW_SIZE>>
    /\ snd_cwnd # DEFAULT_AZS_WINDOW_SIZE
    /\ rtt # rtt_min

\* C7 as stated: tcp_azs_state sets if_cong for every ca_state, and once
\* set if_cong stays set until the next tcp_azs_init.
C7_StateSetsCongFlag ==
    [][/\ last_op' = "set_state" => if_cong' = 1
       /\ (if_cong = 1 /\ last_op' # "init") => if_cong' = 1]_vars

\* C7 amended: tcp_azs_state sets azs_en for every ca_state and leaves
\* if_cong as it was; once set, azs_en stays set under every hook.
C7_StateSetsEnable ==
    [][/\ last_op' = "set_state" => (azs_en' = 1 /\ if_cong' = if_cong)
       /\ azs_en = 1 => azs_en' = 1]_vars

\* C7 witness: tcp_azs_state ran with ca_state 0 (the open state) on a
\* connection tcp_azs_init has not yet touched: azs_en is set, if_cong is
\* still clear.
C7_Witness ==
    /\ last_op = "set_state"
    /\ arg[1] = 0
    /\ ~inited
    /\ azs_en = 1
    /\ if_cong = 0

\* C8: right after tcp_azs_pkts_acked or tcp_azs_cwnd_event the send window
\* is DEFAULT_AZS_WINDOW_SIZE and the hook wrote it, also with azs_en clear,
\* with rtt_us <= 0, with cnt = 0 and for every event.
C8_UnconditionalWindow ==
    last_op \in {"pkts_acked", "cwnd_event"}
        => (snd_cwnd = DEFAULT_AZS_WINDOW_SIZE /\ wrote)

\* C8 witness: tcp_azs_pkts_acked ran with azs_en clear, no sample and a
\* zero count, and the window is the fixed size.
C8_Witness ==
    /\ last_op = "pkts_acked"
    /\ azs_en = 0
    /\ arg = <<0, -1>>
    /\ snd_cwnd = DEFAULT_AZS_WINDOW_SIZE

\* C9: tcp_azs_cwnd_event changes nothing but the send window: azs_en,
\* if_cong, rtt and rtt_min are after the call what they were before it.
C9_EventFrame ==
    [][last_op' = "cwnd_event"
         => UNCHANGED <<azs_en, if_cong, rtt_min, rtt>>]_vars

\* C9 witness: tcp_azs_cwnd_event ran after init and after a sample, the
\* window is the fixed size and if_cong is still clear.
C9_Witness ==
    /\ last_op = "cwnd_event"
    /\ inited
    /\ samples # {}
    /\ rtt # rtt_min
    /\ if_cong = 0
    /\ snd_cwnd = DEFAULT_AZS_WINDOW_SIZE

\* C10: in every reachable state every hook can run with every input value
\* (no hook has a precondition that refuses a call), and the outcome of the
\* last call is either void or the fixed window size, never an error value.
C10_HooksTotal ==
    /\ ENABLED tcp_azs_init
    /\ \A cnt \in CntValues, rtt_us \in RttValues :
           ENABLED tcp_azs_pkts_acked(cnt, rtt_us)
    /\ ENABLED tcp_azs_undo_cwnd
    /\ \A ca_state \in CaStateValues : ENABLED tcp_azs_state(ca_state)
    /\ \A event \in EventValues : ENABLED tcp_azs_cwnd_event(event)
    /\ \A ack \in AckValues, acked \in AckedValues :
           ENABLED tcp_azs_cong_avoid(ack, acked)
    /\ ENABLED tcp_azs_ssthresh
    /\ ret \in {<<>>, <<DEFAULT_AZS_WINDOW_SIZE>>}

\* C10 witness: tcp_azs_pkts_acked completed on a zero count without a
\* sample, and tcp_azs_cong_avoid can run next on the untouched record.
C10_Witness ==
    /\ last_op = "pkts_acked"
    /\ arg = <<0, 0>>
    /\ ret = <<>>
    /\ ~inited

\* C11: in every state reached from tcp_azs_init by any sequence of hook
\* calls, rtt_min <= rtt.
C11_MinBelowRtt == inited => rtt_min <= rtt

\* C11 witness: after init and samples, rtt_min is strictly below rtt and
\* below its initial value.
C11_Witness ==
    /\ inited
    /\ samples # {}
    /\ rtt_min < rtt
    /\ rtt_min < TCP_AZS_INIT_RTT

\* C12: once tcp_azs_init has run, no hook other than tcp_azs_init makes
\* rtt_min larger than it was before the call, and rtt_min never exceeds
\* TCP_AZS_INIT_RTT.
C12_MinNonIncreasing ==
    [][/\ (inited /\ last_op' # "init") => rtt_min' <= rtt_min
       /\ inited' => rtt_min' <= TCP_AZS_INIT_RTT]_vars

\* C12 witness: a sample larger than the running minimum has just been
\* delivered and rtt_min kept its smaller value.
C12_Witness ==
    /\ inited
    /\ last_op = "pkts_acked"
    /\ arg[2] > rtt_min
    /\ rtt_min < TCP_AZS_INIT_RTT

\* C15: in every state reached from tcp_azs_init azs_en is set, and
\* therefore tcp_azs_cong_avoid never takes its delegate branch: the last
\* hook made no call of tcp_veno_cong_avoid.
C15_NeverDelegates == inited => (azs_en = 1 /\ veno = <<>>)

\* C15, the part about the flag alone: in every state reached from
\* tcp_azs_init, azs_en is set.
C15_EnableStaysSet == inited => azs_en = 1

\* C16: tcp_azs_init and tcp_azs_state leave snd_cwnd as it was, and the
\* only hooks after which snd_cwnd differs from before are
\* tcp_azs_pkts_acked, tcp_azs_cong_avoid and tcp_azs_cwnd_event.
C16_InitStateKeepWindow ==
    [][/\ last_op' \in {"init", "set_state"}
            => (snd_cwnd' = snd_cwnd /\ wrote' = FALSE)
       /\ snd_cwnd' # snd_cwnd => last_op' \in AckHooks]_vars

\* C16 witness: tcp_azs_init and then tcp_azs_state have run and the
\* window still holds the value the stack gave it.
C16_Witness ==
    /\ inited
    /\ last_op = "set_state"
    /\ snd_cwnd \in StackCwndValues
    /\ rtt = TCP_AZS_INIT_RTT

\* C17: the branch tcp_azs_cong_avoid takes is decided by azs_en, the flag
\* tcp_azs_init writes: it delegates to tcp_veno_cong_avoid exactly when
\* azs_en is clear and forces the window exactly when azs_en is set.
C17_BranchReadsAzsEn ==
    [][last_op' = "cong_avoid"
         => /\ (azs_en = 0) <=> (veno' # <<>>)
            /\ (azs_en # 0) <=> wrote']_vars

\* C14: a hook called for one connection leaves the private record
\* (azs_en, if_cong, rtt_min, rtt) and the send window of the other
\* connection as they were, under every interleaving of the hook calls of
\* the two connections.
C14_ConnectionsIsolated ==
    [][last_op' # "switch" => peer' = peer]_vars

\* C14 witness: both connections have been initialised and have received
\* samples, a hook has just run for one of them, and their RTT estimates
\* differ.
C14_Witness ==
    /\ last_op = "pkts_acked"
    /\ inited
    /\ peer.inited
    /\ peer.samples # {}
    /\ peer.rtt # rtt
    /\ peer.rtt_min # rtt_min
    /\ peer.snd_cwnd = DEFAULT_AZS_WINDOW_SIZE

\* A call of one hook with its arguments
HookCalls ==
    {<<"init", 0, 0>>, <<"undo_cwnd", 0, 0>>, <<"ssthresh", 0, 0>>}
    \cup {<<"pkts_acked", c, r>> : c \in CntValues, r \in RttValues}
    \cup {<<"set_state", c, 0>> : c \in CaStateValues}
    \cup {<<"cwnd_event", e, 0>> : e \in EventValues}
    \cup {<<"cong_avoid", a, n>> : a \in AckValues, n \in AckedValues}

Call(c) ==
    \/ c[1] = "init" /\ tcp_azs_init
    \/ c[1] = "undo_cwnd" /\ tcp_azs_undo_cwnd
    \/ c[1] = "ssthresh" /\ tcp_azs_ssthresh
    \/ c[1] = "pkts_acked" /\ tcp_azs_pkts_acked(c[2], c[3])
    \/ c[1] = "set_state" /\ tcp_azs_state(c[2])
    \/ c[1] = "cwnd_event" /\ tcp_azs_cwnd_event(c[2])
    \/ c[1] = "cong_avoid" /\ tcp_azs_cong_avoid(c[2], c[3])

RttOutcomes == {0, TCP_AZS_INIT_RTT} \cup {r \in RttValues : r > 0}

CwndOutcomes == StackCwndValues \cup {DEFAULT_AZS_WINDOW_SIZE}

\* What call c can produce in the current state: the window it leaves, the
\* value it returns, whether it wrote the window, the fallback calls it
\* made, and the fields other than if_cong it leaves.
Outcomes(c) ==
    [snd_cwnd |-> {v \in CwndOutcomes : ENABLED (Call(c) /\ snd_cwnd' = v)},
     ret      |-> {v \in {<<>>} \cup {<<w>> : w \in CwndOutcomes} :
                     ENABLED (Call(c) /\ ret' = v)},
     wrote    |-> {v \in BOOLEAN : ENABLED (Call(c) /\ wrote' = v)},
     veno     |-> {v \in {<<>>, <<(<<c[2], c[3]>>)>>} :
                     ENABLED (Call(c) /\ veno' = v)},
     azs_en   |-> {v \in {0, 1} : ENABLED (Call(c) /\ azs_en' = v)},
     rtt      |-> {v \in RttOutcomes : ENABLED (Call(c) /\ rtt' = v)},
     rtt_min  |-> {v \in RttOutcomes : ENABLED (Call(c) /\ rtt_min' = v)}]

\* C13: if_cong gates no decision.  Take any reachable state and the state
\* that differs from it in if_cong alone: every hook call with every
\* argument can produce in the one exactly the window writes, the return
\* value, the fallback calls and the azs_en, rtt and rtt_min values it can
\* produce in the other.  Two runs fed the same calls therefore agree on
\* all of these at every step.
C13_FlagGatesNothing ==
    [][(if_cong' # if_cong /\ snd_cwnd' = snd_cwnd /\ azs_en' = azs_en
           /\ rtt' = rtt /\ rtt_min' = rtt_min /\ ezs_en' = ezs_en)
         => \A c \in HookCalls : Outcomes(c)' = Outcomes(c)]_vars

\* C13 witness: the state with the other if_cong value, after init, samples
\* and a delegated avoidance step.
C13_Witness ==
    /\ if_cong = 1
    /\ inited
    /\ samples # {}
    /\ rtt # rtt_min
    /\ last_op = "cong_avoid"
    /\ veno # <<>>

====
